---- MODULE Spec2Model ----
(***************************************************************************)
(* Network Response Tester (src/App.tsx): the probing and statistics       *)
(* engine of the App component.  The React state of the component, the two *)
(* refs, the browser's interval timers and the probes in flight are the    *)
(* state; the click handler, the timer tick and the completion signals of  *)
(* a probe are the actions.  State updates of one handler are applied      *)
(* together with the statistics effect that follows the render.  The       *)
(* rendering (table, chart), the timestamp of an entry and the unmount     *)
(* cleanup of App.tsx:146-152 are left out.                                *)
(***************************************************************************)
EXTENDS Integers, Sequences, FiniteSets, TLC

VARIABLES
    host,            \* useState host (App.tsx:6)
    requestType,     \* useState requestType (App.tsx:7)
    isRunning,       \* useState isRunning (App.tsx:8)
    results,         \* useState results, newest first (App.tsx:9)
    statusMessage,   \* useState statusMessage (App.tsx:10)
    averageLatency,  \* useState averageLatency (App.tsx:11)
    minLatency,      \* useState minLatency (App.tsx:12)
    maxLatency,      \* useState maxLatency (App.tsx:13)
    effectDue,       \* `results` changed in the last render and the effect of App.tsx:20 has not run
    intervalRef,     \* intervalRef.current (App.tsx:15)
    testCounter,     \* testCounterRef.current (App.tsx:16)
    isHttps,         \* window.location.protocol === 'https:' (App.tsx:18)
    timers,          \* the browser's armed setInterval timers
    issued,          \* history variable: the number of probes issued in the behaviour
    probes,          \* the runTest calls in flight, by issue number
    log              \* history variable: the outcomes appended since the last reset, newest first

vars == <<host, requestType, isRunning, results, statusMessage, averageLatency,
          minLatency, maxLatency, effectDue, intervalRef, testCounter, isHttps, timers,
          issued, probes, log>>

stats == <<averageLatency, minLatency, maxLatency, effectDue>>

-----------------------------------------------------------------------------
(* Bounds of the model *)

\* total number of probes issued over all runs of one behaviour
MaxProbes == 3
\* longest history the statistics specification draws
MaxLen == 5

\* hosts the user can type: the empty string and one host name
Hosts == {"", "a"}
\* rounded durations a probe of the engine specification can measure
Durations == {80, 120}
\* rounded durations in the histories of the statistics specification
StatDurations == {80, 100, 120, 150}

-----------------------------------------------------------------------------
(* Program constants and values *)

HTTPS == "https-get"
HTTP == "http-get"
RequestTypes == {HTTPS, HTTP}

\* null of `number | null` (time, the statistics)
Null == -1
\* an absent `error` field; falsy like the empty string
NoError == ""
\* intervalRef.current before the first start (null, falsy)
NoInterval == 0

\* slice(0, 40)
Capacity == 40
\* const timeout = 2000
timeout == 2000
\* window.setInterval(runTest, 2000)
IntervalMs == 2000

TimeoutMsg == "Timeout (" \o ToString(timeout) \o "ms)"
FailedMsg == "Failed. Check host, network, or console for errors."
RequestFailedMsg == "Request failed."

\* the values fetch rejects with: a TypeError on a network failure, an
\* AbortError DOMException after controller.abort()
TypeError == [isError |-> TRUE, name |-> "TypeError"]
AbortError == [isError |-> TRUE, name |-> "AbortError"]

-----------------------------------------------------------------------------
(* Helpers *)

Min2(a, b) == IF a <= b THEN a ELSE b

\* Array.prototype.slice(from, to) for 0 <= from <= to
Slice(s, from, to) == SubSeq(s, from + 1, Min2(to, Len(s)))

\* times.reduce((acc, t) => acc + t, 0)
RECURSIVE Reduce(_)
Reduce(times) == IF times = <<>> THEN 0 ELSE Head(times) + Reduce(Tail(times))

\* Math.round(a / n) for a >= 0, n > 0: halves round up
MathRound(a, n) == (2 * a + n) \div (2 * n)

\* Math.min(...times), Math.max(...times) of a non-empty array
MathMin(times) ==
    CHOOSE m \in {times[i] : i \in DOMAIN times} : \A i \in DOMAIN times : m <= times[i]
MathMax(times) ==
    CHOOSE m \in {times[i] : i \in DOMAIN times} : \A i \in DOMAIN times : m >= times[i]

-----------------------------------------------------------------------------
(* Statistics effect, App.tsx:20-39 *)

\* r => r.time !== null && !r.error
IsSuccessful(r) == r.time # Null /\ r.error = NoError

\* results.filter(...)
RECURSIVE successfulTests(_)
successfulTests(rs) ==
    IF rs = <<>> THEN <<>>
    ELSE IF IsSuccessful(Head(rs)) THEN <<Head(rs)>> \o successfulTests(Tail(rs))
         ELSE successfulTests(Tail(rs))

\* a bug: slice(1) drops the newest successful test, not the oldest
testsForCalculationDropsNewest(successful) == Slice(successful, 1, Len(successful))

\* successfulTests.slice(0, -1) of a non-empty array
testsForCalculation(successful) == Slice(successful, 0, Len(successful) - 1)

\* testsForCalculation.map(r => r.time!)
timesOf(tests) == [i \in DOMAIN tests |-> tests[i].time]

\* a bug: the statistics of all successful tests, from the first one on
ComputeStatsOfAll(rs) ==
    LET successful == successfulTests(rs)
        times == timesOf(successful)
    IN  IF Len(successful) > 0
        THEN <<MathRound(Reduce(times), Len(times)), MathMin(times), MathMax(times)>>
        ELSE <<Null, Null, Null>>

\* the three values the effect sets, as <<average, min, max>>
ComputeStats(rs) ==
    LET successful == successfulTests(rs)
        times == timesOf(testsForCalculation(successful))
    IN  IF Len(successful) > 1
        THEN <<MathRound(Reduce(times), Len(times)), MathMin(times), MathMax(times)>>
        ELSE <<Null, Null, Null>>

\* the effect runs after every render that changed `results`
StatisticsEffect ==
    LET computed == ComputeStats(results')
    IN  /\ averageLatency' = computed[1]
        /\ minLatency' = computed[2]
        /\ maxLatency' = computed[3]
        /\ effectDue' = FALSE

-----------------------------------------------------------------------------
(* addResult, App.tsx:41-50.  `probe` is the issue number of the probe that *)
(* reports; the entry keeps it, and the run of that probe, as history       *)
(* fields.  The timestamp is display text and is left out.                  *)

\* the entry addResult builds: { ...result, id: testCounterRef.current++ }
Entry(result, probe) ==
    [id |-> testCounter, type |-> result.type, time |-> result.time,
     status |-> result.status, error |-> result.error,
     probe |-> probe, run |-> probes[probe].run]

\* a bug: the window keeps one entry more than the 40 of slice(0, 40)
addResultKeepsOneMore(result, probe) ==
    /\ results' = Slice(<<Entry(result, probe)>> \o results, 0, Capacity + 1)
    /\ testCounter' = testCounter + 1
    /\ log' = <<Entry(result, probe)>> \o log
    /\ StatisticsEffect

\* a bug: the id is the issue number of the probe, not the counter at append time
addResultIssueId(result, probe) ==
    /\ results' = Slice(<<[Entry(result, probe) EXCEPT !.id = probe - 1]>> \o results,
                        0, Capacity)
    /\ testCounter' = testCounter + 1
    /\ log' = <<[Entry(result, probe) EXCEPT !.id = probe - 1]>> \o log
    /\ StatisticsEffect

addResult(result, probe) ==
    /\ results' = Slice(<<Entry(result, probe)>> \o results, 0, Capacity)
    /\ testCounter' = testCounter + 1
    /\ log' = <<Entry(result, probe)>> \o log
    /\ StatisticsEffect

-----------------------------------------------------------------------------
(* runTest, App.tsx:52-123.  A probe record is the closure of one runTest   *)
(* call: the captured host and requestType, the setTimeout of the call      *)
(* (armed or not), the request (the fetch or the image load) and, for the   *)
(* image technique, `done` and the two handlers of the image.  `run` (the   *)
(* interval handle of the run that issued the probe) is a history field.    *)
(* A closure that has nothing left to wait for is dropped.                  *)

\* a bug: the probe is sent without its timeout
NewProbeNoTimeout(h, type, run) ==
    [host |-> h, type |-> type, run |-> run,
     timer |-> FALSE,
     request |-> "pending",
     done |-> FALSE,
     handlers |-> (type = HTTP)]

NewProbe(h, type, run) ==
    [host |-> h, type |-> type, run |-> run,
     timer |-> TRUE,                 \* setTimeout(..., timeout) armed
     request |-> "pending",          \* fetch pending / image loading
     done |-> FALSE,                 \* let done = false (image technique)
     handlers |-> (type = HTTP)]     \* img.onload = img.onerror = handleSuccess

\* a closure still has a callback the browser can call
InFlight(p) == p.timer \/ p.request # "idle"

\* the closures of ps that are still in flight
Live(ps) == [j \in {k \in DOMAIN ps : InFlight(ps[k])} |-> ps[j]]

\* the synchronous part of runTest, with the closure values h and type
runTest(h, type, run) ==
    IF h = ""
    THEN /\ statusMessage' = "Error: Host is required."
         /\ UNCHANGED <<issued, probes>>
    ELSE /\ statusMessage' = "Pinging " \o h \o "..."
         /\ issued' = issued + 1
         /\ probes' = (issued + 1 :> NewProbe(h, type, run)) @@ probes

\* a bug: the catch block tests for the wrong error name
ErrorMsgWrongName(error) ==
    IF error.isError
    THEN IF error.name = "TimeoutError" THEN TimeoutMsg ELSE FailedMsg
    ELSE RequestFailedMsg

\* the catch block of the HTTPS branch, App.tsx:78-89
ErrorMsg(error) ==
    IF error.isError
    THEN IF error.name = "AbortError" THEN TimeoutMsg ELSE FailedMsg
    ELSE RequestFailedMsg

\* the await of App.tsx:69 returns: lines 74-77
FetchResolved(i) ==
    /\ probes[i].type = HTTPS
    /\ probes[i].request = "pending"
    /\ \E duration \in Durations :
          addResult([type |-> probes[i].type, time |-> duration, status |-> "OK",
                     error |-> NoError], i)
    /\ probes' = Live([probes EXCEPT ![i].request = "idle", ![i].timer = FALSE])
    /\ UNCHANGED <<host, requestType, isRunning, statusMessage, intervalRef, isHttps,
                   timers, issued>>

\* a bug: a failed probe ends the run (clears the interval, leaves Running)
CatchFetchStopsRun(i, error) ==
    /\ addResult([type |-> probes[i].type, time |-> Null, status |-> "Error",
                  error |-> ErrorMsg(error)], i)
    /\ probes' = Live([probes EXCEPT ![i].request = "idle", ![i].timer = FALSE])
    /\ timers' = {t \in timers : t.id # intervalRef}
    /\ isRunning' = FALSE
    /\ UNCHANGED <<host, requestType, statusMessage, intervalRef, isHttps, issued>>

\* a bug: the catch block reports the status of the try block with its message
CatchFetchReportsOK(i, error) ==
    /\ addResult([type |-> probes[i].type, time |-> Null, status |-> "OK",
                  error |-> ErrorMsg(error)], i)
    /\ probes' = Live([probes EXCEPT ![i].request = "idle", ![i].timer = FALSE])
    /\ UNCHANGED <<host, requestType, isRunning, statusMessage, intervalRef, isHttps,
                   timers, issued>>

\* the await of App.tsx:69 throws `error`: lines 78-89
CatchFetch(i, error) ==
    /\ addResult([type |-> probes[i].type, time |-> Null, status |-> "Error",
                  error |-> ErrorMsg(error)], i)
    /\ probes' = Live([probes EXCEPT ![i].request = "idle", ![i].timer = FALSE])
    /\ UNCHANGED <<host, requestType, isRunning, statusMessage, intervalRef, isHttps,
                   timers, issued>>

\* the network fails before any response: fetch rejects with a TypeError
FetchRejected(i) ==
    /\ probes[i].type = HTTPS
    /\ probes[i].request = "pending"
    /\ CatchFetch(i, TypeError)

\* the setTimeout of App.tsx:65 fires: controller.abort() rejects the pending
\* fetch with an AbortError, and the catch block runs in the same turn
AbortTimeout(i) ==
    /\ probes[i].type = HTTPS
    /\ probes[i].timer
    /\ IF probes[i].request = "pending"
       THEN CatchFetch(i, AbortError)
       ELSE /\ probes' = Live([probes EXCEPT ![i].timer = FALSE])
            /\ UNCHANGED <<host, requestType, isRunning, results, statusMessage, stats,
                           intervalRef, testCounter, isHttps, timers, issued, log>>

\* recordResult, App.tsx:94-107, called on probe i whose record is p after the
\* caller's own changes.  img.src = '' cancels the load.
recordResult(i, p, time, status, error) ==
    IF p.done
    THEN /\ probes' = Live([probes EXCEPT ![i] = p])
         /\ UNCHANGED <<results, testCounter, log, stats>>
    ELSE /\ probes' = Live([probes EXCEPT ![i] = [p EXCEPT !.done = TRUE, !.timer = FALSE,
                                                           !.handlers = FALSE,
                                                           !.request = "idle"]])
         /\ IF status = "OK" /\ time # Null
            THEN addResult([type |-> p.type, time |-> time, status |-> status,
                            error |-> NoError], i)
            ELSE addResult([type |-> p.type, time |-> Null, status |-> status,
                            error |-> error], i)

\* handleSuccess, App.tsx:113-116
handleSuccess(i, p) ==
    \E duration \in Durations : recordResult(i, p, duration, "OK", NoError)

\* a bug: img.onerror records a failure
ImgSignalErrorFails(i, signal) ==
    /\ probes[i].type = HTTP
    /\ probes[i].request = "pending"
    /\ signal \in {"load", "error"}
    /\ IF probes[i].handlers
       THEN IF signal = "load"
            THEN handleSuccess(i, [probes[i] EXCEPT !.request = "idle"])
            ELSE recordResult(i, [probes[i] EXCEPT !.request = "idle"], Null, "Error",
                              FailedMsg)
       ELSE /\ probes' = Live([probes EXCEPT ![i].request = "idle"])
            /\ UNCHANGED <<results, testCounter, log, stats>>
    /\ UNCHANGED <<host, requestType, isRunning, statusMessage, intervalRef, isHttps,
                   timers, issued>>

\* the image fires `signal`, load or error (App.tsx:118-119): img.onload and
\* img.onerror are both handleSuccess, which runs while the handlers are set
ImgSignal(i, signal) ==
    /\ probes[i].type = HTTP
    /\ probes[i].request = "pending"
    /\ signal \in {"load", "error"}
    /\ IF probes[i].handlers
       THEN handleSuccess(i, [probes[i] EXCEPT !.request = "idle"])
       ELSE /\ probes' = Live([probes EXCEPT ![i].request = "idle"])
            /\ UNCHANGED <<results, testCounter, log, stats>>
    /\ UNCHANGED <<host, requestType, isRunning, statusMessage, intervalRef, isHttps,
                   timers, issued>>

\* the setTimeout of App.tsx:109-111 fires
ImgTimeout(i) ==
    /\ probes[i].type = HTTP
    /\ probes[i].timer
    /\ recordResult(i, [probes[i] EXCEPT !.timer = FALSE], Null, "Error", TimeoutMsg)
    /\ UNCHANGED <<host, requestType, isRunning, statusMessage, intervalRef, isHttps,
                   timers, issued>>

-----------------------------------------------------------------------------
(* handleStartStop, App.tsx:125-144 *)

\* a bug: the handle cleared is that of the run before
ClearIntervalOfRunBefore(handle) == {t \in timers : t.id # handle - 1}

\* clearInterval(handle)
ClearInterval(handle) == {t \in timers : t.id # handle}

\* a bug: stop leaves the interval armed
StopLeavesTimer ==
    /\ isRunning
    /\ isRunning' = FALSE
    /\ statusMessage' = "Stopped by user."
    /\ UNCHANGED <<host, requestType, results, stats, intervalRef, testCounter, isHttps,
                   timers, issued, probes, log>>

\* a bug: stop clears the interval and leaves isRunning set
StopKeepsRunning ==
    /\ isRunning
    /\ timers' = IF intervalRef # NoInterval THEN ClearInterval(intervalRef) ELSE timers
    /\ statusMessage' = "Stopped by user."
    /\ UNCHANGED <<host, requestType, isRunning, results, stats, intervalRef, testCounter,
                   isHttps, issued, probes, log>>

\* a bug: stop resets History and the counter as start does
StopClearsResults ==
    /\ isRunning
    /\ timers' = IF intervalRef # NoInterval THEN ClearInterval(intervalRef) ELSE timers
    /\ isRunning' = FALSE
    /\ statusMessage' = "Stopped by user."
    /\ results' = <<>>
    /\ log' = <<>>
    /\ StatisticsEffect
    /\ testCounter' = 0
    /\ UNCHANGED <<host, requestType, intervalRef, isHttps, issued, probes>>

\* a bug: stop drops the probes in flight with their timeouts
StopAbortsProbes ==
    /\ isRunning
    /\ timers' = IF intervalRef # NoInterval THEN ClearInterval(intervalRef) ELSE timers
    /\ isRunning' = FALSE
    /\ statusMessage' = "Stopped by user."
    /\ probes' = <<>>
    /\ UNCHANGED <<host, requestType, results, stats, intervalRef, testCounter, isHttps,
                   issued, log>>

\* the isRunning branch, lines 126-131
Stop ==
    /\ isRunning
    /\ timers' = IF intervalRef # NoInterval THEN ClearInterval(intervalRef) ELSE timers
    /\ isRunning' = FALSE
    /\ statusMessage' = "Stopped by user."
    /\ UNCHANGED <<host, requestType, results, stats, intervalRef, testCounter, isHttps,
                   issued, probes, log>>

\* a bug: the host is tested after the reset of lines 137-138
StartRejectedAfterReset ==
    /\ ~isRunning
    /\ host = ""
    /\ results' = <<>>
    /\ log' = <<>>
    /\ StatisticsEffect
    /\ testCounter' = 0
    /\ statusMessage' = "Error: Host cannot be empty."
    /\ UNCHANGED <<host, requestType, isRunning, intervalRef, isHttps, timers, issued,
                   probes>>

\* the else branch with an empty host, lines 133-136
StartRejected ==
    /\ ~isRunning
    /\ host = ""
    /\ statusMessage' = "Error: Host cannot be empty."
    /\ UNCHANGED <<host, requestType, isRunning, results, stats, intervalRef, testCounter,
                   isHttps, timers, issued, probes, log>>

\* a bug: start leaves testCounterRef as the last run left it
StartKeepsCounter ==
    /\ ~isRunning
    /\ host # ""
    /\ issued < MaxProbes
    /\ results' = <<>>
    /\ log' = <<>>
    /\ StatisticsEffect
    /\ isRunning' = TRUE
    /\ runTest(host, requestType, intervalRef + 1)
    /\ intervalRef' = intervalRef + 1
    /\ timers' = timers \cup {[id |-> intervalRef + 1, delay |-> IntervalMs,
                               host |-> host, type |-> requestType]}
    /\ UNCHANGED <<host, requestType, isHttps, testCounter>>

\* a bug: start arms the interval and leaves the first probe to the first tick
StartWaitsForTick ==
    /\ ~isRunning
    /\ host # ""
    /\ issued < MaxProbes
    /\ results' = <<>>
    /\ log' = <<>>
    /\ StatisticsEffect
    /\ testCounter' = 0
    /\ isRunning' = TRUE
    /\ statusMessage' = "Starting tests..."
    /\ intervalRef' = intervalRef + 1
    /\ timers' = timers \cup {[id |-> intervalRef + 1, delay |-> IntervalMs,
                               host |-> host, type |-> requestType]}
    /\ UNCHANGED <<host, requestType, isHttps, issued, probes>>

\* a bug: the statistics effect does not run on the reset of History
StartKeepsStatistics ==
    /\ ~isRunning
    /\ host # ""
    /\ issued < MaxProbes
    /\ results' = <<>>
    /\ log' = <<>>
    /\ UNCHANGED stats
    /\ testCounter' = 0
    /\ isRunning' = TRUE
    /\ runTest(host, requestType, intervalRef + 1)
    /\ intervalRef' = intervalRef + 1
    /\ timers' = timers \cup {[id |-> intervalRef + 1, delay |-> IntervalMs,
                               host |-> host, type |-> requestType]}
    /\ UNCHANGED <<host, requestType, isHttps>>

\* the else branch with a host, lines 137-142.  window.setInterval returns a
\* handle that no armed timer has: the one after the last handle.  The timer
\* keeps the runTest closure of this render, so its host and requestType.
Start ==
    /\ ~isRunning
    /\ host # ""
    /\ issued < MaxProbes
    /\ results' = <<>>
    /\ log' = <<>>
    /\ StatisticsEffect
    /\ testCounter' = 0
    /\ isRunning' = TRUE
    /\ runTest(host, requestType, intervalRef + 1)
    /\ intervalRef' = intervalRef + 1
    /\ timers' = timers \cup {[id |-> intervalRef + 1, delay |-> IntervalMs,
                               host |-> host, type |-> requestType]}
    /\ UNCHANGED <<host, requestType, isHttps>>

handleStartStop == Stop \/ StartRejected \/ Start

\* the one button of App.tsx:193, onClick={handleStartStop}: the handler takes
\* no argument, so the command the caller means ("start" or "stop") does not
\* reach it
onClick(command) == handleStartStop

\* an armed interval timer fires and calls its runTest closure
Tick ==
    /\ issued < MaxProbes
    /\ \E t \in timers : runTest(t.host, t.type, t.id)
    /\ UNCHANGED <<host, requestType, isRunning, results, stats, intervalRef, testCounter,
                   isHttps, timers, log>>

-----------------------------------------------------------------------------
(* The form controls, App.tsx:169 and 174-183: both are disabled while a run *)
(* is active, and the HTTP option is disabled on a secure page.             *)

SetHost(h) ==
    /\ ~isRunning
    /\ h # host
    /\ host' = h
    /\ UNCHANGED <<requestType, isRunning, results, statusMessage, stats, intervalRef,
                   testCounter, isHttps, timers, issued, probes, log>>

\* a bug: the select is not disabled while a run is active
SetRequestTypeWhileRunning(type) ==
    /\ type # requestType
    /\ type = HTTP => ~isHttps
    /\ requestType' = type
    /\ UNCHANGED <<host, isRunning, results, statusMessage, stats, intervalRef,
                   testCounter, isHttps, timers, issued, probes, log>>

SetRequestType(type) ==
    /\ ~isRunning
    /\ type # requestType
    /\ type = HTTP => ~isHttps
    /\ requestType' = type
    /\ UNCHANGED <<host, isRunning, results, statusMessage, stats, intervalRef,
                   testCounter, isHttps, timers, issued, probes, log>>

-----------------------------------------------------------------------------
(* The engine: the component after its first render, App.tsx:6-18 *)

Init ==
    /\ host = "a"
    /\ requestType = HTTPS
    /\ isRunning = FALSE
    /\ results = <<>>
    /\ statusMessage = "Ready to start."
    /\ averageLatency = Null
    /\ minLatency = Null
    /\ maxLatency = Null
    /\ effectDue = FALSE
    /\ intervalRef = NoInterval
    /\ testCounter = 0
    /\ isHttps \in BOOLEAN
    /\ timers = {}
    /\ issued = 0
    /\ probes = <<>>
    /\ log = <<>>

Next ==
    \/ Stop
    \/ StartRejected
    \/ Start
    \/ Tick
    \/ \E h \in Hosts : SetHost(h)
    \/ \E type \in RequestTypes : SetRequestType(type)
    \/ \E i \in DOMAIN probes : FetchResolved(i)
    \/ \E i \in DOMAIN probes : FetchRejected(i)
    \/ \E i \in DOMAIN probes : AbortTimeout(i)
    \/ \E i \in DOMAIN probes : \E signal \in {"load", "error"} : ImgSignal(i, signal)
    \/ \E i \in DOMAIN probes : ImgTimeout(i)

Spec == Init /\ [][Next]_vars

-----------------------------------------------------------------------------
(* The engine late in a run: Capacity - 1 probes of one run have succeeded *)
(* one after the other and none is in flight.  Their entries carry probe   *)
(* number 0: they were issued before the behaviour starts.                 *)

Prefill(n) ==
    [k \in 1..n |-> [id |-> n - k, type |-> HTTPS,
                     time |-> IF (n - k) % 2 = 0 THEN 80 ELSE 120,
                     status |-> "OK", error |-> NoError, probe |-> 0, run |-> 1]]

InitFull ==
    /\ host = "a"
    /\ requestType = HTTPS
    /\ isRunning = TRUE
    /\ results = Prefill(Capacity - 1)
    /\ log = results
    /\ statusMessage = "Pinging a..."
    /\ averageLatency = ComputeStats(results)[1]
    /\ minLatency = ComputeStats(results)[2]
    /\ maxLatency = ComputeStats(results)[3]
    /\ effectDue = FALSE
    /\ intervalRef = 1
    /\ testCounter = Capacity - 1
    /\ isHttps \in BOOLEAN
    /\ timers = {[id |-> 1, delay |-> IntervalMs, host |-> "a", type |-> HTTPS]}
    /\ issued = 0
    /\ probes = <<>>

SpecFull == InitFull /\ [][Next]_vars

-----------------------------------------------------------------------------
(* The statistics effect alone: the commit of a render that changed        *)
(* `results`, before the effect of that render has run.  The statistics    *)
(* are still those of the history before the mutation, which was an append *)
(* (addResult) or a reset (setResults([])).                                *)

\* what a probe reports: a duration, a timeout or a network failure
StatOutcomes ==
    {[time |-> t, status |-> "OK", error |-> NoError] : t \in StatDurations}
    \cup {[time |-> Null, status |-> "Error", error |-> TimeoutMsg],
          [time |-> Null, status |-> "Error", error |-> FailedMsg]}

\* the history, newest first, of a run whose probes reported `outcomes`
HistoryOf(outcomes) ==
    [k \in DOMAIN outcomes |->
        [id |-> Len(outcomes) - k, type |-> HTTPS, time |-> outcomes[k].time,
         status |-> outcomes[k].status, error |-> outcomes[k].error,
         probe |-> Len(outcomes) - k + 1, run |-> 1]]

Histories(n) == UNION {{HistoryOf(o) : o \in [1..k -> StatOutcomes]} : k \in 0..n}

InitStats ==
    /\ host = "a"
    /\ requestType = HTTPS
    /\ isRunning = TRUE
    /\ statusMessage = "Pinging a..."
    /\ intervalRef = 1
    /\ isHttps \in BOOLEAN
    /\ timers = {[id |-> 1, delay |-> IntervalMs, host |-> "a", type |-> HTTPS]}
    /\ probes = <<>>
    /\ \E before \in Histories(MaxLen) :
          /\ averageLatency = ComputeStats(before)[1]
          /\ minLatency = ComputeStats(before)[2]
          /\ maxLatency = ComputeStats(before)[3]
          /\ \/ /\ Len(before) < MaxLen
                /\ \E o \in StatOutcomes : results = HistoryOf(<<o>> \o
                        [k \in DOMAIN before |-> [time |-> before[k].time,
                                                  status |-> before[k].status,
                                                  error |-> before[k].error]])
             \/ results = <<>>
    /\ log = results
    /\ testCounter = Len(results)
    /\ issued = Len(results)
    /\ effectDue = TRUE

\* the effect of App.tsx:20-39 runs
RunStatisticsEffect ==
    /\ effectDue
    /\ results' = results
    /\ StatisticsEffect
    /\ UNCHANGED <<host, requestType, isRunning, statusMessage, intervalRef, testCounter,
                   isHttps, timers, issued, probes, log>>

SpecStats == InitStats /\ [][RunStatisticsEffect]_vars

-----------------------------------------------------------------------------
(* Properties of the result store and of the statistics *)

\* C1: History never holds more than 40 outcomes, and it is exactly the
\* min(k, 40) most recent of the k outcomes appended since the last reset,
\* newest first: an append to a full History evicts the oldest entry only.
HistoryIsNewestWindow ==
    /\ Len(results) <= 40
    /\ Len(results) = Min2(Len(log), 40)
    /\ \A k \in DOMAIN results : results[k] = log[k]

\* two outcomes were appended to a full History: the two oldest are gone
TwoEvicted ==
    /\ Len(log) = 42
    /\ Len(results) = 40
    /\ results[40] = log[40]
    /\ results[1].probe > 0

\* the positions of the successful outcomes of a history
SuccessfulAt(rs) == {k \in DOMAIN rs : rs[k].status = "OK" /\ rs[k].time # Null}

\* the position of the oldest successful outcome: the last one, newest first
OldestSuccessfulAt(rs) ==
    CHOOSE k \in SuccessfulAt(rs) : \A j \in SuccessfulAt(rs) : j <= k

RECURSIVE SumOfTimes(_, _)
SumOfTimes(rs, at) ==
    IF at = {} THEN 0
    ELSE LET k == CHOOSE j \in at : TRUE
         IN  rs[k].time + SumOfTimes(rs, at \ {k})

\* average, min and max are those of the outcomes of rs at the positions `at`:
\* the average is the sum over the count rounded to the nearest integer
\* (halves up), min and max are attained and bound every time
StatisticsAreOver(rs, at) ==
    /\ 2 * averageLatency * Cardinality(at) - Cardinality(at) <= 2 * SumOfTimes(rs, at)
    /\ 2 * SumOfTimes(rs, at) < 2 * averageLatency * Cardinality(at) + Cardinality(at)
    /\ \E k \in at : rs[k].time = minLatency
    /\ \A k \in at : rs[k].time >= minLatency
    /\ \E k \in at : rs[k].time = maxLatency
    /\ \A k \in at : rs[k].time <= maxLatency

\* the successful outcomes of rs are 120, 80, 150, 100, newest first
IsExample(rs) ==
    \E a, b, c, d \in DOMAIN rs :
        /\ a < b /\ b < c /\ c < d
        /\ SuccessfulAt(rs) = {a, b, c, d}
        /\ rs[a].time = 120 /\ rs[b].time = 80 /\ rs[c].time = 150 /\ rs[d].time = 100

\* C2: with two or more successful outcomes in History, failed ones anywhere
\* between them, the statistics the effect sets are those of the successful
\* outcomes without the oldest one; successes 120, 80, 150, 100 (newest
\* first) give average 117, min 80, max 150.
StatisticsExcludeOldest ==
    (~effectDue /\ Cardinality(SuccessfulAt(results)) >= 2) =>
        /\ StatisticsAreOver(results, SuccessfulAt(results) \ {OldestSuccessfulAt(results)})
        /\ IsExample(results) =>
              averageLatency = 117 /\ minLatency = 80 /\ maxLatency = 150

\* the effect has run on the example with a failed outcome between the successes
ExampleComputed ==
    /\ ~effectDue
    /\ IsExample(results)
    /\ Len(results) = 5
    /\ results[1].status = "OK" /\ results[5].status = "OK"
    /\ averageLatency = 117

\* C3: with no or one successful outcome in History, however many failed
\* ones, the effect sets average, min and max to null.
StatisticsNullBelowTwo ==
    (~effectDue /\ Cardinality(SuccessfulAt(results)) <= 1) =>
        averageLatency = Null /\ minLatency = Null /\ maxLatency = Null

\* the effect has run on a history of one success among failures
OneSuccessComputed ==
    /\ ~effectDue
    /\ Cardinality(SuccessfulAt(results)) = 1
    /\ Len(results) >= 3
    /\ results[1].status = "Error"
    /\ averageLatency = Null

-----------------------------------------------------------------------------
(* Properties of the engine *)

\* C4: the ids of a run are 0, 1, 2, ... without gaps in the order of the
\* appends: the counter is the number of outcomes appended since the last
\* reset, and the ids of History, newest first, go down by one from the
\* counter minus 1.
IdsAreConsecutive ==
    /\ testCounter = Len(log)
    /\ \A k \in DOMAIN results : results[k].id = testCounter - k

\* three outcomes of a second run are in History, with ids 2, 1, 0
ThreeIdsInSecondRun ==
    /\ intervalRef = 2
    /\ Len(results) = 3
    /\ results[1].id = 2
    /\ results[3].id = 0

\* C5 as stated: the id is assigned at issue time, so of two probes of one
\* run the one issued earlier carries the smaller id in its outcome.
IdsFollowIssueOrder ==
    \A j, k \in DOMAIN results :
        (results[j].run = results[k].run /\ results[j].probe < results[k].probe)
            => results[j].id < results[k].id

\* C5 as the code has it: the id is assigned when the outcome is appended,
\* so of two outcomes in History the one appended earlier carries the
\* smaller id, whatever the order in which their probes were issued.
IdsFollowAppendOrder ==
    \A j, k \in DOMAIN results : j < k => results[j].id > results[k].id

\* two overlapping probes of one run completed in the opposite order: the
\* one issued first was appended last and carries the larger id
OvertakenProbe ==
    \E j, k \in DOMAIN results :
        /\ j < k
        /\ results[j].run = results[k].run
        /\ results[j].probe < results[k].probe
        /\ results[j].id > results[k].id

\* C6: from stop to the next accepted start no interval is armed and no
\* probe is issued, whatever is in flight: a step that begins and ends Idle
\* issues nothing, and only an accepted start leaves Idle.
NoTickAfterStop ==
    /\ [](~isRunning => timers = {})
    /\ [][~isRunning => ((isRunning' /\ Start) \/ (~isRunning' /\ issued' = issued))]_vars

\* stopped with a probe still in flight
StoppedWithProbeInFlight ==
    /\ ~isRunning
    /\ statusMessage = "Stopped by user."
    /\ DOMAIN probes # {}
    /\ timers = {}

\* C7: a click on start with an empty host sets the validation error and
\* nothing else; while Idle with an empty host no step starts a run,
\* issues a probe or arms a timer.
EmptyHostIsRejected ==
    [][(~isRunning /\ host = "") =>
          /\ ~isRunning'
          /\ issued' = issued
          /\ timers' = timers
          /\ intervalRef' = intervalRef
          /\ handleStartStop =>
                /\ statusMessage' = "Error: Host cannot be empty."
                /\ UNCHANGED <<results, testCounter, log, averageLatency, minLatency,
                               maxLatency, probes>>]_vars

\* the validation error is shown over the untouched history of the last run
RejectedOverHistory ==
    /\ ~isRunning
    /\ host = ""
    /\ statusMessage = "Error: Host cannot be empty."
    /\ results # <<>>
    /\ testCounter = Len(results)

\* C8: the step that leaves Idle has a host, empties History, sets the
\* counter to 0, issues one probe for the host and technique of the start
\* in that same step, and arms one interval of 2000 ms with them; every
\* probe issued while Running is issued by that interval.
StartResetsAndProbes ==
    /\ [][(~isRunning /\ isRunning') =>
             /\ host # ""
             /\ results' = <<>>
             /\ testCounter' = 0
             /\ averageLatency' = Null /\ minLatency' = Null /\ maxLatency' = Null
             /\ issued' = issued + 1
             /\ DOMAIN probes' = DOMAIN probes \cup {issued'}
             /\ \A i \in DOMAIN probes : probes'[i] = probes[i]
             /\ probes'[issued'].host = host
             /\ probes'[issued'].type = requestType
             /\ probes'[issued'].run = intervalRef'
             /\ probes'[issued'].request = "pending"
             /\ intervalRef' \notin {t.id : t \in timers} \cup {NoInterval}
             /\ timers' = timers \cup {[id |-> intervalRef', delay |-> 2000,
                                        host |-> host, type |-> requestType]}]_vars
    /\ [][(isRunning /\ issued' # issued) =>
             \E t \in timers :
                 /\ t.id = intervalRef
                 /\ probes'[issued'].host = t.host
                 /\ probes'[issued'].type = t.type]_vars

\* a second run has just started: History is empty again, its first probe is
\* in flight, no tick has fired
SecondRunStarted ==
    /\ isRunning
    /\ intervalRef = 2
    /\ results = <<>>
    /\ testCounter = 0
    /\ issued = 2
    /\ 2 \in DOMAIN probes
    /\ Cardinality(timers) = 1

\* C9: for both techniques the timeout of a probe appends exactly the
\* outcome Error, "Timeout (2000ms)", no time, and leaves nothing of the
\* probe in flight (the fetch aborted, the image cleared, no timer); no
\* probe has two outcomes in the log.
TimeoutIsFinal ==
    /\ [][\A i \in DOMAIN probes :
             (AbortTimeout(i) \/ ImgTimeout(i)) =>
                /\ results' # <<>>
                /\ results'[1].probe = i
                /\ results'[1].type = probes[i].type
                /\ results'[1].status = "Error"
                /\ results'[1].error = "Timeout (2000ms)"
                /\ results'[1].time = Null
                /\ i \notin DOMAIN probes']_vars
    /\ [](\A j, k \in DOMAIN log : (j # k /\ log[j].probe > 0) => log[j].probe # log[k].probe)

\* a probe of each technique has timed out
BothTechniquesTimedOut ==
    \E j, k \in DOMAIN results :
        /\ results[j].type = HTTPS /\ results[j].error = "Timeout (2000ms)"
        /\ results[k].type = HTTP /\ results[k].error = "Timeout (2000ms)"
        /\ results[j].probe \notin DOMAIN probes
        /\ results[k].probe \notin DOMAIN probes

\* C10: appending a failed outcome changes neither RunState nor the
\* interval; while Running the interval of the run is armed and its next
\* tick can issue a probe.
FailureKeepsRunning ==
    /\ [][(log' # log /\ log' # <<>> /\ log'[1].status = "Error") =>
             /\ isRunning' = isRunning
             /\ timers' = timers
             /\ intervalRef' = intervalRef]_vars
    /\ [](isRunning => \E t \in timers : t.id = intervalRef)
    /\ []((isRunning /\ issued < MaxProbes) => ENABLED Tick)

\* a probe of the run failed and the next tick has issued the next probe
ProbeIssuedAfterFailure ==
    /\ isRunning
    /\ results # <<>>
    /\ results[1].status = "Error"
    /\ results[1].run = intervalRef
    /\ \E i \in DOMAIN probes : i > results[1].probe /\ probes[i].run = intervalRef


-----------------------------------------------------------------------------
(* Properties of the outcomes, the commands and the probes *)

\* C11: every outcome in History is either a success (a time, status "OK",
\* no error message) or a failure (no time, status "Error", an error
\* message), never both and never neither.
OutcomeIsSuccessOrFailure ==
    \A k \in DOMAIN results :
        LET success == /\ results[k].time # Null
                       /\ results[k].status = "OK"
                       /\ results[k].error = NoError
            failure == /\ results[k].time = Null
                       /\ results[k].status = "Error"
                       /\ results[k].error # NoError
        IN  (success \/ failure) /\ ~(success /\ failure)

\* History holds a success and a failure of each technique's kind: a fetch
\* that failed, an image that timed out, and a success
AllKindsOfOutcome ==
    /\ \E k \in DOMAIN results : results[k].status = "OK" /\ results[k].time = 120
    /\ \E k \in DOMAIN results : results[k].type = HTTPS /\ results[k].error = FailedMsg
    /\ \E k \in DOMAIN results : results[k].type = HTTP /\ results[k].error = TimeoutMsg


RunKeepsHostAndTechnique ==
    /\ [][isRunning => (host' = host /\ requestType' = requestType)]_vars
    /\ [](isRunning => \A t \in timers : t.host = host /\ t.type = requestType)
    /\ [](\A i \in DOMAIN probes :
             (isRunning /\ probes[i].run = intervalRef)
                => (probes[i].host = host /\ probes[i].type = requestType))
    /\ [](\A i, j \in DOMAIN probes :
             probes[i].run = probes[j].run
                => (probes[i].host = probes[j].host /\ probes[i].type = probes[j].type))
    /\ [](\A j, k \in DOMAIN results :
             results[j].run = results[k].run => results[j].type = results[k].type)

\* after a run over HTTPS, a run over HTTP has its immediate probe and the
\* probe of a tick in flight, next to a probe of the earlier run
TwoProbesOfSecondTechnique ==
    /\ isRunning
    /\ requestType = HTTP
    /\ \E i, j \in DOMAIN probes :
          /\ i < j
          /\ probes[i].run = intervalRef /\ probes[j].run = intervalRef
          /\ probes[i].type = HTTP /\ probes[j].type = HTTP
    /\ \E i \in DOMAIN probes : probes[i].run # intervalRef /\ probes[i].type = HTTPS


\* C14: the first signal of an image probe decides: load and error each
\* append a success, the timeout appends the Timeout failure, and in each
\* case the probe leaves nothing behind that could report again (done set,
\* handlers and timeout cleared, the load cancelled); no image probe has two
\* outcomes, and a Timeout failure of an image probe is appended by its
\* timeout step alone.
FirstImageSignalWins ==
    /\ [][\A i \in DOMAIN probes : \A signal \in {"load", "error"} :
             ImgSignal(i, signal) =>
                /\ Len(log') = Len(log) + 1
                /\ log'[1].probe = i
                /\ log'[1].status = "OK"
                /\ log'[1].time \in Durations
                /\ log'[1].error = NoError
                /\ i \notin DOMAIN probes']_vars
    /\ [][\A i \in DOMAIN probes :
             ImgTimeout(i) =>
                /\ Len(log') = Len(log) + 1
                /\ log'[1].probe = i
                /\ log'[1].status = "Error"
                /\ log'[1].error = TimeoutMsg
                /\ i \notin DOMAIN probes']_vars
    /\ [][\A i \in DOMAIN probes :
             (/\ probes[i].type = HTTP
              /\ log' # log /\ log' # <<>>
              /\ log'[1].probe = i
              /\ log'[1].status = "Error")
             => ImgTimeout(i)]_vars
    /\ [](\A i \in DOMAIN probes :
             probes[i].type = HTTP =>
                /\ probes[i].timer /\ probes[i].request = "pending"
                /\ probes[i].handlers /\ ~probes[i].done
                /\ \A k \in DOMAIN log : log[k].probe # i)
    /\ [](\A j, k \in DOMAIN log :
             (j # k /\ log[j].type = HTTP /\ log[j].run = log[k].run)
                => log[j].probe # log[k].probe)

\* of three image probes of a run, one has succeeded and one has timed out
\* and the third is still loading
ImageProbesDecided ==
    /\ Len(results) = 2
    /\ results[1].type = HTTP /\ results[2].type = HTTP
    /\ results[1].status = "Error" /\ results[2].status = "OK"
    /\ results[1].probe \notin DOMAIN probes
    /\ results[2].probe \notin DOMAIN probes
    /\ \E i \in DOMAIN probes : probes[i].type = HTTP /\ probes[i].run = results[1].run


-----------------------------------------------------------------------------
(* The engine with its timeouts: a timer armed by setTimeout(..., timeout),  *)
(* App.tsx:65 and 109-111, fires unless it is cleared first.  Nothing makes *)
(* the network answer, so the responses have no fairness.                   *)

SpecLive ==
    /\ Spec
    /\ \A i \in 1..MaxProbes :
          /\ WF_vars(i \in DOMAIN probes /\ AbortTimeout(i))
          /\ WF_vars(i \in DOMAIN probes /\ ImgTimeout(i))

\* C15: every probe in flight leaves flight, a probe leaves flight only in a
\* step that appends one outcome, its own, and every appended outcome is of
\* a probe that leaves flight in that step; issue numbers are not reused, so
\* a probe has no second outcome.
EveryProbeReportsOnce ==
    /\ \A i \in 1..MaxProbes : (i \in DOMAIN probes) ~> (i \notin DOMAIN probes)
    /\ [][\A i \in DOMAIN probes :
             i \notin DOMAIN probes' =>
                /\ Len(log') = Len(log) + 1
                /\ log'[1].probe = i
                /\ results' # <<>> /\ results'[1] = log'[1]]_vars
    /\ [][(log' # log /\ log' # <<>>) =>
             /\ Len(log') = Len(log) + 1
             /\ log'[1].probe \in DOMAIN probes
             /\ DOMAIN probes' = DOMAIN probes \ {log'[1].probe}]_vars
    /\ [][\A i \in DOMAIN probes' \ DOMAIN probes : i = issued + 1 /\ issued' = i]_vars
    /\ [](\A i \in DOMAIN probes : i <= issued)

\* all probes of both techniques have reported, the last two by timeout
AllProbesReported ==
    /\ issued = MaxProbes
    /\ probes = <<>>
    /\ Len(log) = MaxProbes
    /\ log[1].error = TimeoutMsg /\ log[2].error = TimeoutMsg
    /\ log[1].type # log[2].type


\* C16: the step that leaves Running changes no probe in flight; a probe in
\* flight, Idle or Running, has its timeout armed and its request pending,
\* so it can still complete either way; and a probe that leaves flight while
\* Idle puts its outcome at the head of History.
StopLeavesProbesInFlight ==
    /\ [][(isRunning /\ ~isRunning') => (probes' = probes /\ issued' = issued)]_vars
    /\ [](\A i \in DOMAIN probes :
             /\ probes[i].timer
             /\ probes[i].request = "pending"
             /\ ~probes[i].done)
    /\ [][\A i \in DOMAIN probes :
             (~isRunning /\ i \notin DOMAIN probes') =>
                /\ ~isRunning'
                /\ results' = Slice(<<log'[1]>> \o results, 0, Capacity)
                /\ results'[1].probe = i
                /\ results'[1].run = probes[i].run
                /\ testCounter' = testCounter + 1]_vars

\* Idle after a stop with one outcome of the stopped run in History and two
\* more probes of that run in flight
StoppedRunStillReporting ==
    /\ ~isRunning
    /\ statusMessage = "Stopped by user."
    /\ Len(results) = 1
    /\ results[1].run = intervalRef
    /\ Cardinality(DOMAIN probes) = 2
    /\ \A i \in DOMAIN probes : probes[i].run = intervalRef


\* the statistics are those of the history rs and of nothing else: null with
\* fewer than two successful outcomes, else over the successful outcomes
\* without the oldest
StatisticsAreOf(rs) ==
    IF Cardinality(SuccessfulAt(rs)) >= 2
    THEN /\ averageLatency # Null /\ minLatency # Null /\ maxLatency # Null
         /\ StatisticsAreOver(rs, SuccessfulAt(rs) \ {OldestSuccessfulAt(rs)})
    ELSE averageLatency = Null /\ minLatency = Null /\ maxLatency = Null

\* C17: once the effect has run, the statistics are those of the current
\* History; every step that changes History runs the effect, and a step that
\* leaves History alone leaves the statistics alone; the step that starts a
\* run empties History and leaves all three statistics null.
StatisticsFollowHistory ==
    /\ [](~effectDue => StatisticsAreOf(results))
    /\ [][results' # results => ~effectDue']_vars
    /\ [][results' = results => UNCHANGED <<averageLatency, minLatency, maxLatency>>]_vars
    /\ [][(~isRunning /\ isRunning') =>
             /\ results' = <<>>
             /\ averageLatency' = Null /\ minLatency' = Null /\ maxLatency' = Null]_vars

\* in the second run the statistics are again those of one outcome, the newer
\* of the two successes of a History that was reset
SecondRunStatistics ==
    /\ isRunning
    /\ intervalRef = 2
    /\ Len(results) = 2
    /\ results[1].status = "OK" /\ results[2].status = "OK"
    /\ results[1].time # results[2].time
    /\ averageLatency = results[1].time
    /\ minLatency = results[1].time /\ maxLatency = results[1].time


\* C18 as stated: every outcome in History is of a probe of the most recent
\* run (the run whose interval handle is intervalRef), and an appended
\* outcome of a probe of an earlier run takes no sequence id.
HistoryIsOfCurrentRun ==
    /\ [](\A k \in DOMAIN results : results[k].run = intervalRef)
    /\ [][\A i \in DOMAIN probes :
             (probes[i].run # intervalRef /\ i \notin DOMAIN probes') =>
                UNCHANGED <<results, testCounter>>]_vars


\* C19: at most one interval timer is armed, one is armed exactly when
\* isRunning, and the armed one is the timer of the most recent start (its
\* handle is intervalRef); start and stop are the only steps that change the
\* set of timers.
OneTimerIffRunning ==
    /\ [](Cardinality(timers) <= 1)
    /\ [](isRunning <=> timers # {})
    /\ [](\A t \in timers : t.id = intervalRef /\ t.delay = IntervalMs)
    /\ [][timers' # timers => (isRunning' # isRunning)]_vars

\* the third run is active with its one timer
ThirdRunOneTimer ==
    /\ isRunning
    /\ intervalRef = 3
    /\ Cardinality(timers) = 1
    /\ \A t \in timers : t.id = 3


\* C20: the step that leaves Running changes the run state, the status
\* message and the timers and nothing else: History, the sequence counter
\* and the statistics are as before; and while Idle no step resets them:
\* History changes only by an outcome put at its head, the counter only by
\* that outcome's id.
StopKeepsData ==
    /\ [][(isRunning /\ ~isRunning') =>
             /\ UNCHANGED <<results, testCounter, averageLatency, minLatency, maxLatency>>
             /\ UNCHANGED <<host, requestType, intervalRef, probes, issued, log>>
             /\ timers' = {}]_vars
    /\ [][(~isRunning /\ ~isRunning') =>
             \/ UNCHANGED <<results, testCounter, averageLatency, minLatency, maxLatency>>
             \/ /\ results' = Slice(<<log'[1]>> \o results, 0, Capacity)
                /\ log'[1].id = testCounter
                /\ testCounter' = testCounter + 1]_vars

\* Idle after a stop, with the three outcomes of the run and their statistics
\* in place and nothing in flight
StoppedWithResults ==
    /\ ~isRunning
    /\ statusMessage = "Stopped by user."
    /\ Len(results) = 3
    /\ testCounter = 3
    /\ averageLatency # Null
    /\ probes = <<>>

====
